---- MODULE Spec2Model ----
(***************************************************************************)
(* A model of src/main.py: class DataUnifier, which unifies records of two *)
(* JSON shapes into one list sorted by a millisecond timestamp.            *)
(*                                                                         *)
(* JSON values are records [k, n, s]: k is the Python type of the value,   *)
(* n its number (int, float, bool) or the identity of its contents (dict), *)
(* s its characters (str), one one-character string per character.         *)
(* A float is integer-valued (n.0), and a list is the empty list.          *)
(* A JSON object (a Python dict) is a function from a set of keys to       *)
(* values; dict.get is Get.                                                *)
(* Exceptions are results: [exc |-> "none", v |-> value] is a return and   *)
(* [exc |-> "TypeError", ...] a raise.                                     *)
(***************************************************************************)
EXTENDS Integers, Sequences, FiniteSets, TLC

VARIABLES tz, data_list, pc, exc, result, logged, kept, order, round, prev,
          arg, ret, file1, file2, all_data

vars == <<tz, data_list, pc, exc, result, logged, kept, order, round, prev,
          arg, ret, file1, file2, all_data>>

(***************************************************************************)
(* Bounds of the model.                                                    *)
(***************************************************************************)
\* longest input list of unify_data
MaxLen == 3
\* largest integer timestamp of an input record
MaxTs == 1
\* how many times a caller feeds the list unify_data returned back into it
MaxRounds == 2
\* longest JSON array in an input file
MaxFileLen == 2

(***************************************************************************)
(* JSON values.                                                            *)
(***************************************************************************)
Val(k, n, s) == [k |-> k, n |-> n, s |-> s]
NoneV == Val("null", 0, <<>>)
IntV(n) == Val("int", n, <<>>)
FloatV(n) == Val("float", n, <<>>)
BoolV(b) == Val("bool", IF b THEN 1 ELSE 0, <<>>)
StrV(s) == Val("str", 0, s)
EmptyList == Val("list", 0, <<>>)
Dict(id) == Val("dict", id, <<>>)
EmptyDict == Dict(0)

Ok(v) == [exc |-> "none", v |-> v]
Raise(e) == [exc |-> e, v |-> NoneV]

\* the keys the program reads or writes
Keys == {"timestamp", "time", "message", "msg", "value", "val", "source",
         "metadata", "meta"}

\* a raw entry that has a .get method: a JSON object
IsDict(d) == DOMAIN d \subseteq Keys

\* dict.get(key, default)
Get(d, key, default) == IF key \in DOMAIN d THEN d[key] ELSE default

(***************************************************************************)
(* Characters and strings.                                                 *)
(***************************************************************************)
Digits == {"0", "1", "2", "3", "4", "5", "6", "7", "8", "9"}

DigitVal(c) ==
  CASE c = "0" -> 0 [] c = "1" -> 1 [] c = "2" -> 2 [] c = "3" -> 3
    [] c = "4" -> 4 [] c = "5" -> 5 [] c = "6" -> 6 [] c = "7" -> 7
    [] c = "8" -> 8 [] c = "9" -> 9

\* the code point of a character (str comparison is by code point)
Ord(c) ==
  CASE c \in Digits -> 48 + DigitVal(c)
    [] c = " " -> 32 [] c = "+" -> 43 [] c = "-" -> 45 [] c = "." -> 46
    [] c = ":" -> 58 [] c = "T" -> 84 [] c = "Z" -> 90 [] c = "_" -> 95
    [] c = "a" -> 97 [] c = "b" -> 98 [] c = "d" -> 100 [] c = "e" -> 101
    [] c = "f" -> 102 [] c = "m" -> 109 [] c = "n" -> 110 [] c = "o" -> 111
    [] c = "r" -> 114 [] c = "t" -> 116

\* c in s
Contains(s, c) == \E j \in DOMAIN s : s[j] = c

\* s[a..b] are all digits
AllDigits(s, a, b) == \A j \in a..b : s[j] \in Digits

RECURSIVE Num(_, _, _)
\* int(s[a..b]) of a run of digits
Num(s, a, b) == IF b < a THEN 0 ELSE 10 * Num(s, a, b - 1) + DigitVal(s[b])

RECURSIVE StrLt(_, _)
\* s < t of two Python strings
StrLt(s, t) ==
  IF t = <<>> THEN FALSE
  ELSE IF s = <<>> THEN TRUE
  ELSE IF s[1] # t[1] THEN Ord(s[1]) < Ord(t[1])
  ELSE StrLt(Tail(s), Tail(t))

(***************************************************************************)
(* datetime.fromisoformat and datetime.timestamp (line 31, line 34).       *)
(* The grammar is YYYY-MM-DD[*HH[:MM[:SS[.fff[fff]]]][(+|-)HH:MM]], the    *)
(* one every CPython from 3.7 on accepts with the same meaning.            *)
(***************************************************************************)
IsLeap(y) == (y % 4 = 0 /\ y % 100 # 0) \/ y % 400 = 0

DaysInMonth(y, m) ==
  IF m = 2 THEN (IF IsLeap(y) THEN 29 ELSE 28)
  ELSE IF m \in {4, 6, 9, 11} THEN 30 ELSE 31

\* days from 1970-01-01 to y-m-d in the proleptic Gregorian calendar
DaysFromCivil(y, m, d) ==
  LET yy == IF m <= 2 THEN y - 1 ELSE y
      era == yy \div 400
      yoe == yy - era * 400
      mp == IF m > 2 THEN m - 3 ELSE m + 9
      doy == (153 * mp + 2) \div 5 + d - 1
      doe == yoe * 365 + yoe \div 4 - yoe \div 100 + doy
  IN era * 146097 + doe - 719468

\* the date part s[1..10]: [ok, days]
ParseDate(s) ==
  IF Len(s) < 10 \/ s[5] # "-" \/ s[8] # "-"
     \/ ~AllDigits(s, 1, 4) \/ ~AllDigits(s, 6, 7) \/ ~AllDigits(s, 9, 10)
  THEN [ok |-> FALSE, days |-> 0]
  ELSE LET y == Num(s, 1, 4)
           m == Num(s, 6, 7)
           d == Num(s, 9, 10)
       IN IF y < 1 \/ m < 1 \/ m > 12 \/ d < 1 \/ d > DaysInMonth(y, m)
          THEN [ok |-> FALSE, days |-> 0]
          ELSE [ok |-> TRUE, days |-> DaysFromCivil(y, m, d)]

\* the time part HH[:MM[:SS[.fff[fff]]]]: [ok, secs, micro]
ParseTime(t) ==
  LET n == Len(t)
      bad == [ok |-> FALSE, secs |-> 0, micro |-> 0]
  IN IF n \notin {2, 5, 8, 12, 15} THEN bad
     ELSE IF ~AllDigits(t, 1, 2) THEN bad
     ELSE IF n >= 5 /\ (t[3] # ":" \/ ~AllDigits(t, 4, 5)) THEN bad
     ELSE IF n >= 8 /\ (t[6] # ":" \/ ~AllDigits(t, 7, 8)) THEN bad
     ELSE IF n >= 12 /\ (t[9] # "." \/ ~AllDigits(t, 10, n)) THEN bad
     ELSE LET h == Num(t, 1, 2)
              mi == IF n >= 5 THEN Num(t, 4, 5) ELSE 0
              sec == IF n >= 8 THEN Num(t, 7, 8) ELSE 0
              micro == IF n = 12 THEN 1000 * Num(t, 10, 12)
                       ELSE IF n = 15 THEN Num(t, 10, 15) ELSE 0
          IN IF h > 23 \/ mi > 59 \/ sec > 59 THEN bad
             ELSE [ok |-> TRUE, secs |-> h * 3600 + mi * 60 + sec,
                   micro |-> micro]

\* the UTC offset (+|-)HH:MM: [ok, minutes]
ParseOffset(o) ==
  IF Len(o) # 6 \/ o[4] # ":" \/ ~AllDigits(o, 2, 3) \/ ~AllDigits(o, 5, 6)
  THEN [ok |-> FALSE, minutes |-> 0]
  ELSE LET hh == Num(o, 2, 3)
           mm == Num(o, 5, 6)
       IN IF hh > 23 \/ mm > 59 THEN [ok |-> FALSE, minutes |-> 0]
          ELSE [ok |-> TRUE,
                minutes |-> (IF o[1] = "-" THEN -1 ELSE 1) * (hh * 60 + mm)]

\* datetime.fromisoformat(s): [ok, aware, days, secs, micro, offset]
fromisoformat(s) ==
  LET bad == [ok |-> FALSE, aware |-> FALSE, days |-> 0, secs |-> 0,
              micro |-> 0, offset |-> 0]
      date == ParseDate(s)
  IN IF ~date.ok THEN bad
     ELSE IF Len(s) = 10
     THEN [ok |-> TRUE, aware |-> FALSE, days |-> date.days, secs |-> 0,
           micro |-> 0, offset |-> 0]
     ELSE LET rest == SubSeq(s, 12, Len(s))
              signs == {j \in DOMAIN rest : rest[j] \in {"+", "-"}}
              cut == IF signs = {} THEN Len(rest) + 1
                     ELSE CHOOSE j \in signs : \A q \in signs : j <= q
              time == ParseTime(SubSeq(rest, 1, cut - 1))
              off == IF signs = {} THEN [ok |-> TRUE, minutes |-> 0]
                     ELSE ParseOffset(SubSeq(rest, cut, Len(rest)))
          IN IF ~time.ok \/ ~off.ok THEN bad
             ELSE [ok |-> TRUE, aware |-> signs # {}, days |-> date.days,
                   secs |-> time.secs, micro |-> time.micro,
                   offset |-> off.minutes]

\* int(dt.timestamp() * 1000): a naive dt is in the host's time zone, which
\* is hostOffset minutes east of UTC; int() truncates toward zero
timestamp_ms(dt, hostOffset) ==
  LET off == IF dt.aware THEN dt.offset ELSE hostOffset
      secs == dt.days * 86400 + dt.secs - off * 60
      floor == secs * 1000 + dt.micro \div 1000
  IN IF secs < 0 /\ dt.micro % 1000 # 0 THEN floor + 1 ELSE floor

(***************************************************************************)
(* DataUnifier.iso_to_milliseconds                                         *)
(***************************************************************************)
\* iso_timestamp[:-1] if iso_timestamp.endswith('Z'), lines 27-28
strip_Z(s) ==
  IF Len(s) > 0 /\ s[Len(s)] = "Z" THEN SubSeq(s, 1, Len(s) - 1) ELSE s

\* lines 34-38, given what fromisoformat made of the string
to_milliseconds(dt, hostOffset) ==
  IF ~dt.ok THEN Raise("ValueError")
  ELSE Ok(IntV(timestamp_ms(dt, hostOffset)))

\* as iso_to_milliseconds, but a number is taken for epoch milliseconds
iso_to_milliseconds_numeric(iso_timestamp, hostOffset) ==
  IF iso_timestamp.k \in {"int", "float", "bool"} THEN Ok(iso_timestamp)
  ELSE IF iso_timestamp.k # "str" THEN Raise("AttributeError")
  ELSE to_milliseconds(fromisoformat(strip_Z(iso_timestamp.s)), hostOffset)

iso_to_milliseconds(iso_timestamp, hostOffset) ==
  IF iso_timestamp.k # "str" THEN Raise("AttributeError")
  ELSE to_milliseconds(fromisoformat(strip_Z(iso_timestamp.s)), hostOffset)

(***************************************************************************)
(* The strings the inputs are drawn from.  Dates lie within days of the    *)
(* epoch, so that epoch milliseconds fit the model checker's integers, and *)
(* fractions of a second are ones binary floating point holds exactly      *)
(* (.500) or that lie away from a millisecond boundary (.000500), so that  *)
(* int(x * 1000) of line 34 is the exact truncation.                       *)
(***************************************************************************)
DateEpoch == <<"1", "9", "7", "0", "-", "0", "1", "-", "0", "1">>
DateNext == <<"1", "9", "7", "0", "-", "0", "1", "-", "0", "2">>
DateBefore == <<"1", "9", "6", "9", "-", "1", "2", "-", "3", "1">>
DateBadDay == <<"1", "9", "7", "0", "-", "0", "2", "-", "3", "0">>
DateBadMonth == <<"1", "9", "7", "0", "-", "1", "3", "-", "0", "1">>
TimeMidnight == <<"T", "0", "0", ":", "0", "0", ":", "0", "0">>
TimeHalf == <<"T", "0", "0", ":", "0", "0", ":", "0", "1", ".", "5", "0", "0">>
TimeMicro ==
  <<"T", "0", "0", ":", "0", "0", ":", "0", "0", ".", "0", "0", "0", "5", "0",
    "0">>
TimeHM == <<"T", "1", "2", ":", "3", "0">>
TimeSpace == <<" ", "0", "0", ":", "0", "0", ":", "0", "2">>
TimeBad == <<"T", "b", "a", "d">>
Time24 == <<"T", "2", "4", ":", "0", "0", ":", "0", "0">>
SufZ == <<"Z">>
SufUTC == <<"+", "0", "0", ":", "0", "0">>
SufEast == <<"+", "0", "5", ":", "3", "0">>
SufWest == <<"-", "0", "1", ":", "0", "0">>
NotADate == <<"n", "o", "t", "-", "a", "-", "d", "a", "t", "e">>

Dates == {DateEpoch, DateNext, DateBefore, DateBadDay, DateBadMonth}
Times == {<<>>, TimeMidnight, TimeHalf, TimeMicro, TimeHM, TimeSpace, TimeBad,
          Time24}
Suffixes == {<<>>, SufZ, SufUTC, SufEast, SufWest}

\* date, time and suffix joined; a date alone takes no UTC offset
IsoStrings ==
  {d \o t \o z : <<d, t, z>> \in
     {x \in Dates \X Times \X Suffixes : x[2] = <<>> => x[3] \in {<<>>, SufZ}}}

\* strings that are no date at all
OtherStrings == {<<>>, NotADate, SufZ, <<"T">>}

\* the host's time zone, in minutes east of UTC
TZOffsets == {0, 330, -60}

(***************************************************************************)
(* DataUnifier.normalize_data_format_1, normalize_data_format_2 and        *)
(* detect_data_format                                                      *)
(***************************************************************************)
Format1Tag == <<"f", "o", "r", "m", "a", "t", "_", "1">>
Format2Tag == <<"f", "o", "r", "m", "a", "t", "_", "2">>

\* as normalize_data_format_1, but the message is read at key msg
normalize_data_format_1_msg(data) ==
  IF ~IsDict(data) THEN Raise("AttributeError")
  ELSE Ok([timestamp |-> Get(data, "timestamp", NoneV),
           message |-> Get(data, "msg", StrV(<<>>)),
           value |-> Get(data, "value", IntV(0)),
           source |-> StrV(Format1Tag),
           metadata |-> Get(data, "metadata", EmptyDict)])

normalize_data_format_1(data) ==
  IF ~IsDict(data) THEN Raise("AttributeError")
  ELSE Ok([timestamp |-> Get(data, "timestamp", NoneV),
           message |-> Get(data, "message", StrV(<<>>)),
           value |-> Get(data, "value", IntV(0)),
           source |-> StrV(Format1Tag),
           metadata |-> Get(data, "metadata", EmptyDict)])

\* lines 77-84, given what iso_to_milliseconds returned or raised
format_2_record(data, millisecond_timestamp) ==
  IF millisecond_timestamp.exc # "none" THEN Raise(millisecond_timestamp.exc)
  ELSE Ok([timestamp |-> millisecond_timestamp.v,
           message |-> Get(data, "message", Get(data, "msg", StrV(<<>>))),
           value |-> Get(data, "value", Get(data, "val", IntV(0))),
           source |-> StrV(Format2Tag),
           metadata |-> Get(data, "metadata", Get(data, "meta", EmptyDict))])

normalize_data_format_2(data, hostOffset) ==
  IF ~IsDict(data) THEN Raise("AttributeError")
  ELSE format_2_record(data,
         iso_to_milliseconds(
           Get(data, "timestamp", Get(data, "time", StrV(<<>>))), hostOffset))

\* isinstance(v, (int, float)); a bool is an int
IsNumber(v) == v.k \in {"int", "float", "bool"}

\* as format_of, but the UTC marker Z is not looked for
format_of_T_only(timestamp) ==
  IF IsNumber(timestamp) THEN "format_1"
  ELSE IF timestamp.k = "str" /\ Contains(timestamp.s, "T") THEN "format_2"
  ELSE "format_1"

\* lines 98-107, given the value read at line 96
format_of(timestamp) ==
  IF IsNumber(timestamp) THEN "format_1"
  ELSE IF timestamp.k = "str"
          /\ (Contains(timestamp.s, "T") \/ Contains(timestamp.s, "Z"))
  THEN "format_2"
  ELSE "format_1"

detect_data_format(data) ==
  IF ~IsDict(data) THEN [exc |-> "AttributeError", tag |-> "none"]
  ELSE [exc |-> "none",
        tag |-> format_of(Get(data, "timestamp",
                              Get(data, "time", StrV(<<>>))))]

(***************************************************************************)
(* list.sort(key = timestamp), line 140: a stable sort by the keys' <,     *)
(* which raises TypeError as soon as two keys it compares have no order.   *)
(* The result is the permutation: perm[j] is the position, before the      *)
(* sort, of the element at position j after it.                            *)
(***************************************************************************)
\* as Lt, but a <= b: equal keys change places
LtOrEqual(a, b) ==
  IF IsNumber(a) /\ IsNumber(b) THEN [exc |-> "none", lt |-> a.n <= b.n]
  ELSE IF a.k = "str" /\ b.k = "str"
  THEN [exc |-> "none", lt |-> ~StrLt(b.s, a.s)]
  ELSE IF a.k = "list" /\ b.k = "list" THEN [exc |-> "none", lt |-> TRUE]
  ELSE [exc |-> "TypeError", lt |-> FALSE]

\* a < b of two Python values: [exc, lt]
Lt(a, b) ==
  IF IsNumber(a) /\ IsNumber(b) THEN [exc |-> "none", lt |-> a.n < b.n]
  ELSE IF a.k = "str" /\ b.k = "str"
  THEN [exc |-> "none", lt |-> StrLt(a.s, b.s)]
  ELSE IF a.k = "list" /\ b.k = "list" THEN [exc |-> "none", lt |-> FALSE]
  ELSE [exc |-> "TypeError", lt |-> FALSE]

\* perm with x put behind its first j elements
InsertAt(perm, x, j) ==
  SubSeq(perm, 1, j) \o <<x>> \o SubSeq(perm, j + 1, Len(perm))

RECURSIVE Insert(_, _, _, _)
\* x put into the sorted perm, behind every element that is not greater;
\* perm[j + 1 ..] are known to be greater
Insert(keys, perm, x, j) ==
  IF j = 0 THEN [exc |-> "none", perm |-> InsertAt(perm, x, 0)]
  ELSE LET c == Lt(keys[x], keys[perm[j]])
       IN IF c.exc # "none" THEN [exc |-> c.exc, perm |-> <<>>]
          ELSE IF c.lt THEN Insert(keys, perm, x, j - 1)
          ELSE [exc |-> "none", perm |-> InsertAt(perm, x, j)]

RECURSIVE SortFrom(_, _, _)
\* keys[x ..] put one by one into sorted, the sort of keys[1 .. x - 1]
SortFrom(keys, sorted, x) ==
  IF sorted.exc # "none" \/ x > Len(keys) THEN sorted
  ELSE SortFrom(keys, Insert(keys, sorted.perm, x, Len(sorted.perm)), x + 1)

list_sort(keys) == SortFrom(keys, [exc |-> "none", perm |-> <<>>], 1)

(***************************************************************************)
(* DataUnifier.unify_data                                                  *)
(***************************************************************************)
\* lines 127-130, given the detected format
normalize_as(format_type, data_entry, hostOffset) ==
  IF format_type.exc # "none" THEN Raise(format_type.exc)
  ELSE IF format_type.tag = "format_1"
  THEN normalize_data_format_1(data_entry)
  ELSE normalize_data_format_2(data_entry, hostOffset)

\* the body of the try of one iteration, lines 123-130
normalize_entry(data_entry, hostOffset) ==
  normalize_as(detect_data_format(data_entry), data_entry, hostOffset)

\* as collect, but a record that failed leaves a record without timestamp
collect_keeps_failed(acc, normalized, i) ==
  IF normalized.exc = "none"
  THEN [results |-> Append(acc.results, normalized.v),
        logged |-> acc.logged, kept |-> Append(acc.kept, i)]
  ELSE [results |-> Append(acc.results,
                           [timestamp |-> NoneV, message |-> StrV(<<>>),
                            value |-> IntV(0), source |-> StrV(Format2Tag),
                            metadata |-> EmptyDict]),
        logged |-> acc.logged + 1, kept |-> Append(acc.kept, i)]

\* lines 132-137: acc is [results, logged, kept], logged the number of
\* entries reported as errors and kept the positions in the input of the
\* entries in results
collect(acc, normalized, i) ==
  IF normalized.exc = "none"
  THEN [results |-> Append(acc.results, normalized.v),
        logged |-> acc.logged, kept |-> Append(acc.kept, i)]
  ELSE [results |-> acc.results, logged |-> acc.logged + 1,
        kept |-> acc.kept]

RECURSIVE unify_loop(_, _, _)
\* the loop over list[1..i], lines 121-137
unify_loop(list, i, hostOffset) ==
  IF i = 0 THEN [results |-> <<>>, logged |-> 0, kept |-> <<>>]
  ELSE collect(unify_loop(list, i - 1, hostOffset),
               normalize_entry(list[i], hostOffset), i)

\* the sort keys of line 140
timestamps(results) == [j \in DOMAIN results |-> results[j].timestamp]

\* lines 140-142, given the outcome of the sort: [exc, out, logged, kept, order]
sorted_results(acc, sorted) ==
  IF sorted.exc # "none"
  THEN [exc |-> sorted.exc, out |-> <<>>, logged |-> acc.logged,
        kept |-> acc.kept, order |-> <<>>]
  ELSE [exc |-> "none",
        out |-> [j \in DOMAIN sorted.perm |-> acc.results[sorted.perm[j]]],
        logged |-> acc.logged, kept |-> acc.kept, order |-> sorted.perm]

\* as sort_and_return, but without the sort
return_unsorted(acc) ==
  sorted_results(acc, [exc |-> "none",
                       perm |-> [j \in DOMAIN acc.results |-> j]])

\* lines 139-142, after the loop
sort_and_return(acc) == sorted_results(acc, list_sort(timestamps(acc.results)))

unify_data(list, hostOffset) ==
  sort_and_return(unify_loop(list, Len(list), hostOffset))

(***************************************************************************)
(* The inputs of unify_data.                                               *)
(***************************************************************************)
\* a valid date-time with the UTC marker, and one that fails the grammar
IsoValid == DateEpoch \o TimeHalf \o SufZ
IsoInvalid == DateEpoch \o TimeBad

\* what an input record holds at key timestamp
TsValues ==
  {IntV(n) : n \in 0..MaxTs}
    \cup {NoneV, BoolV(TRUE), FloatV(1), EmptyList, EmptyDict, StrV(NotADate),
          StrV(DateEpoch), StrV(IsoValid), StrV(IsoInvalid)}

\* a record of the second shape under its other key names
AliasRecord ==
  [x \in {"time", "msg", "val", "meta"} |->
     CASE x = "time" -> StrV(DateNext \o TimeMidnight \o SufUTC)
       [] x = "msg" -> StrV(<<"b">>)
       [] x = "val" -> IntV(2)
       [] x = "meta" -> Dict(1)]

\* a record with a timestamp and a message
Record(v) ==
  [x \in {"timestamp", "message"} |->
     IF x = "timestamp" THEN v ELSE StrV(<<"a">>)]

CanonicalKeys == {"timestamp", "message", "value", "source", "metadata"}

\* a record that has the shape of the output already
CanonicalRecord ==
  [x \in CanonicalKeys |->
     CASE x = "timestamp" -> IntV(0)
       [] x = "message" -> StrV(<<"m">>)
       [] x = "value" -> FloatV(1)
       [] x = "source" -> StrV(Format2Tag)
       [] x = "metadata" -> Dict(1)]

\* the entries of an input list: records with a timestamp and a message, the
\* empty record, the alias record, a canonical record, and an entry that is
\* no JSON object
RawEntries ==
  {Record(v) : v \in TsValues}
    \cup {<<>>, AliasRecord, CanonicalRecord, IntV(7)}

\* the sequences over S of length at most n
SeqUpTo(S, n) == UNION {[1..m -> S] : m \in 0..n}

\* the host time zones of the runs of unify_data
HostOffsets == {0, 330}

NoFile == [st |-> "none", islist |-> FALSE, items |-> <<>>]

(***************************************************************************)
(* Spec: a caller gives unify_data a list, and may give it the list it     *)
(* returned again.                                                         *)
(***************************************************************************)
\* no call of unify_data has ended
NothingReturned ==
  /\ exc = "none"
  /\ result = <<>>
  /\ logged = 0
  /\ kept = <<>>
  /\ order = <<>>
  /\ round = 0
  /\ prev = <<>>

\* no function is called on its own
NoArgument == arg = NoneV /\ ret = Ok(NoneV)

\* no files are read
NoFiles == file1 = NoFile /\ file2 = NoFile /\ all_data = <<>>

Init ==
  /\ tz \in HostOffsets
  /\ data_list \in SeqUpTo(RawEntries, MaxLen)
  /\ pc = "call"
  /\ NothingReturned
  /\ NoArgument
  /\ NoFiles

\* the call unify_data(list) has ended as r
Returned(list, r) ==
  /\ data_list' = list
  /\ exc' = r.exc
  /\ result' = r.out
  /\ logged' = r.logged
  /\ kept' = r.kept
  /\ order' = r.order
  /\ pc' = "done"

Call(list) == Returned(list, unify_data(list, tz))

UnifyData ==
  /\ pc = "call"
  /\ Call(data_list)
  /\ UNCHANGED <<tz, round, prev, arg, ret, file1, file2, all_data>>

\* the caller passes the returned list to unify_data again
UnifyAgain ==
  /\ pc = "done"
  /\ exc = "none"
  /\ round < MaxRounds
  /\ Call(result)
  /\ prev' = data_list
  /\ round' = round + 1
  /\ UNCHANGED <<tz, arg, ret, file1, file2, all_data>>

Next == UnifyData \/ UnifyAgain

Spec == Init /\ [][Next]_vars

(***************************************************************************)
(* Claims about unify_data, checked under Spec.                            *)
(***************************************************************************)
Done == pc = "done"
Returns == pc = "done" /\ exc = "none"

\* a <= b of two Python values holds (and does not raise)
PyLe(a, b) ==
  \/ IsNumber(a) /\ IsNumber(b) /\ a.n <= b.n
  \/ a.k = "str" /\ b.k = "str" /\ ~StrLt(b.s, a.s)
  \/ a.k = "list" /\ b.k = "list"

\* a == b of two Python values
PyEq(a, b) == IF IsNumber(a) /\ IsNumber(b) THEN a.n = b.n ELSE a = b

\* the position in the input of the record at position j of the output
InputPos(j) == kept[order[j]]

\* C1: unify_data returns for every input list: no failure that a record
\* causes, in its classification, its normalization or the sort that uses
\* its timestamp, escapes to the caller.
C1_NoFailureEscapes == Done => exc = "none"

\* C2: every record of a list unify_data returns has a timestamp that is an
\* integer and not null.
C2_TimestampsAreIntegers ==
  Returns => \A j \in DOMAIN result : result[j].timestamp.k = "int"

\* C3: whenever unify_data returns, each record's timestamp is <= the
\* timestamp of the record behind it.
C3_OutputSorted ==
  Returns =>
    \A j \in 1..(Len(result) - 1) :
      PyLe(result[j].timestamp, result[j + 1].timestamp)

\* the sort moved records, and records of both shapes are in the output
C3_Witness ==
  /\ Returns
  /\ Len(result) = 3
  /\ order # <<1, 2, 3>>
  /\ \E j \in DOMAIN result : result[j].source = StrV(Format2Tag)
  /\ \E j \in DOMAIN result : result[j].source = StrV(Format1Tag)

\* C4: the sort is stable: of two normalized records with equal timestamps,
\* the one that came earlier in the input comes earlier in the output, and
\* each output record is the normalization of the input record it is
\* traced to; skipped records in between change nothing.
C4_SortStable ==
  Returns =>
    /\ \A j \in DOMAIN result :
         Ok(result[j]) = normalize_entry(data_list[InputPos(j)], tz)
    /\ \A a, b \in DOMAIN result :
         (a < b /\ PyEq(result[a].timestamp, result[b].timestamp))
           => InputPos(a) < InputPos(b)

\* two different records with equal timestamps, a skipped record between
\* them in the input, and a record the sort moved in front of them
C4_Witness ==
  /\ Returns
  /\ logged > 0
  /\ \E a, b \in DOMAIN result :
       /\ a < b
       /\ PyEq(result[a].timestamp, result[b].timestamp)
       /\ result[a] # result[b]
       /\ InputPos(b) - InputPos(a) > 1
       /\ normalize_entry(data_list[InputPos(a) + 1], tz).exc # "none"

\* the record's textual timestamp contains T and fails the date-time grammar
BadTextual(e) ==
  /\ IsDict(e)
  /\ "timestamp" \in DOMAIN e
  /\ e["timestamp"].k = "str"
  /\ \E j \in DOMAIN e["timestamp"].s : e["timestamp"].s[j] = "T"
  /\ ~fromisoformat(strip_Z(e["timestamp"].s)).ok

\* the record normalizes to an integer timestamp
IntegerOk(e) ==
  /\ normalize_entry(e, tz).exc = "none"
  /\ normalize_entry(e, tz).v.timestamp.k = "int"

Failed(list) == {i \in DOMAIN list : normalize_entry(list[i], tz).exc # "none"}

\* C5: with exactly one record whose textual timestamp contains T and fails
\* the grammar, and all others normalizing to integer timestamps, unify_data
\* returns the input's length minus one records: none for the failed record,
\* exactly one for every other.  Whenever it returns, the output's length is
\* the input's minus the number of records that failed.
C5_FailedSkipped ==
  Done =>
    /\ LET bad == {i \in DOMAIN data_list : BadTextual(data_list[i])}
       IN (/\ Cardinality(bad) = 1
           /\ \A i \in DOMAIN data_list \ bad : IntegerOk(data_list[i]))
            => /\ exc = "none"
               /\ Len(result) = Len(data_list) - 1
               /\ logged = 1
               /\ \A i \in DOMAIN data_list \ bad :
                    Cardinality({j \in DOMAIN result : InputPos(j) = i}) = 1
               /\ \A j \in DOMAIN result : InputPos(j) \notin bad
    /\ exc = "none" =>
         /\ Len(result) = Len(data_list) - Cardinality(Failed(data_list))
         /\ logged = Cardinality(Failed(data_list))

\* one bad record between two good ones
C5_Witness ==
  /\ Returns
  /\ Len(data_list) = 3
  /\ BadTextual(data_list[2])
  /\ IntegerOk(data_list[1])
  /\ IntegerOk(data_list[3])
  /\ Len(result) = 2

\* the record's timestamp is a string without T and Z that is no date
Unparsable(e) ==
  /\ IsDict(e)
  /\ "timestamp" \in DOMAIN e
  /\ e["timestamp"] = StrV(NotADate)

\* C6: a record whose timestamp is an unparsable string without T and Z is
\* classified format_1 and passed to the output with timestamp None, and
\* processing it does not raise, alone or together with records that have
\* integer timestamps.
C6_UnparsablePassedAsNone ==
  Done =>
    LET odd == {i \in DOMAIN data_list : Unparsable(data_list[i])}
    IN (/\ round = 0
        /\ Cardinality(odd) = 1
        /\ \A i \in DOMAIN data_list \ odd : IntegerOk(data_list[i]))
         => /\ exc = "none"
            /\ \A j \in DOMAIN result :
                 InputPos(j) \in odd
                   => /\ result[j].source = StrV(Format1Tag)
                      /\ result[j].timestamp = NoneV

\* the record has the keys of a canonical record and an integer timestamp
Canonical(e) ==
  /\ DOMAIN e = CanonicalKeys
  /\ e["timestamp"].k = "int"

\* canonical records, sorted by timestamp, no timestamp twice
CanonicalSorted(list) ==
  /\ \A i \in DOMAIN list : Canonical(list[i])
  /\ \A i, j \in DOMAIN list :
       i < j => list[i]["timestamp"].n < list[j]["timestamp"].n

Retagged(e) == [e EXCEPT !["source"] = StrV(Format1Tag)]

\* C9: given canonical records sorted by pairwise distinct integer
\* timestamps, unify_data returns the same records in the same order with
\* source set to "format_1", so unify(unify(x)) = unify(x) for such x.
C9_Idempotent ==
  Done =>
    /\ CanonicalSorted(data_list)
         => /\ exc = "none"
            /\ Len(result) = Len(data_list)
            /\ \A i \in DOMAIN result : result[i] = Retagged(data_list[i])
    /\ (round >= 2 /\ CanonicalSorted(prev)) => result = data_list

\* x = prev has three records, one of them tagged format_2, and the third
\* call has returned
C9_Witness ==
  /\ Returns
  /\ round = 2
  /\ CanonicalSorted(prev)
  /\ Len(prev) = 3
  /\ \E i \in DOMAIN prev : prev[i]["source"] = StrV(Format2Tag)
  /\ \E i \in DOMAIN prev : prev[i]["message"] = StrV(<<"b">>)

(***************************************************************************)
(* SpecClassify: detect_data_format applied to one raw record.             *)
(***************************************************************************)
\* what a record may hold at key timestamp or at key time
ClassifyValues ==
  {NoneV, BoolV(TRUE), IntV(0), FloatV(1), EmptyList, EmptyDict, StrV(<<>>),
   StrV(NotADate), StrV(<<"T">>), StrV(SufZ), StrV(DateEpoch), StrV(IsoValid)}

\* the records over the keys timestamp, time and message, and two entries
\* that are no JSON object
ClassifyInputs ==
  UNION {[D -> ClassifyValues] : D \in SUBSET {"timestamp", "time"}}
    \cup {Record(v) : v \in ClassifyValues}
    \cup {IntV(7), StrV(IsoValid)}

InitClassify ==
  /\ arg \in ClassifyInputs
  /\ ret = Ok(NoneV)
  /\ tz = 0
  /\ data_list = <<>>
  /\ pc = "call"
  /\ NothingReturned
  /\ NoFiles

Classify ==
  /\ pc = "call"
  /\ ret' = detect_data_format(arg)
  /\ pc' = "done"
  /\ UNCHANGED <<tz, data_list, exc, result, logged, kept, order, round, prev,
                 arg, file1, file2, all_data>>

NextClassify == Classify

SpecClassify == InitClassify /\ [][NextClassify]_vars

\* the value the classifier is to look at: the one at key timestamp, or at
\* key time when there is no key timestamp, or the empty string
TimestampField(d) ==
  IF "timestamp" \in DOMAIN d THEN d["timestamp"]
  ELSE IF "time" \in DOMAIN d THEN d["time"]
  ELSE StrV(<<>>)

\* C7: detect_data_format never fails on a mapping and returns one of the
\* two tags: "format_2" exactly when the timestamp field is a string that
\* contains T or Z, "format_1" in every other case.
C7_ClassifyTotal ==
  (Done /\ IsDict(arg)) =>
    /\ ret.exc = "none"
    /\ ret.tag \in {"format_1", "format_2"}
    /\ ret.tag = "format_2" <=>
         /\ TimestampField(arg).k = "str"
         /\ \E j \in DOMAIN TimestampField(arg).s :
              TimestampField(arg).s[j] \in {"T", "Z"}

\* a record without key timestamp, classified by the Z at key time
C7_Witness ==
  /\ Done
  /\ IsDict(arg)
  /\ "timestamp" \notin DOMAIN arg
  /\ "time" \in DOMAIN arg
  /\ arg["time"] = StrV(SufZ)
  /\ ret.tag = "format_2"

(***************************************************************************)
(* SpecIso: iso_to_milliseconds called with one value, and a record with   *)
(* that value as its timestamp normalized.                                 *)
(***************************************************************************)
IsoArgs ==
  {NoneV, BoolV(TRUE), IntV(0), IntV(500), FloatV(1)}
    \cup {StrV(s) : s \in IsoStrings \cup OtherStrings}

InitIso ==
  /\ arg \in IsoArgs
  /\ ret = Ok(NoneV)
  /\ tz \in TZOffsets
  /\ data_list = <<>>
  /\ pc = "call"
  /\ NothingReturned
  /\ NoFiles

CallIso ==
  /\ pc = "call"
  /\ ret' = iso_to_milliseconds(arg, tz)
  /\ pc' = "done"
  /\ UNCHANGED <<tz, data_list, exc, result, logged, kept, order, round, prev,
                 arg, file1, file2, all_data>>

\* lines 123-130 for the record {"timestamp": arg, "message": "a"}
NormalizeRecord ==
  /\ pc = "call"
  /\ ret' = normalize_entry(Record(arg), tz)
  /\ pc' = "normalized"
  /\ UNCHANGED <<tz, data_list, exc, result, logged, kept, order, round, prev,
                 arg, file1, file2, all_data>>

NextIso == CallIso \/ NormalizeRecord

SpecIso == InitIso /\ [][NextIso]_vars

load_file_reset(loaded, f) ==
  IF loaded.exc # "none" THEN loaded
  ELSE IF f.st = "ok"
  THEN [exc |-> "none",
        all_data |-> IF f.islist THEN loaded.all_data \o f.items
                     ELSE Append(loaded.all_data, f.items[1])]
  ELSE IF f.st \in {"missing", "malformed"}
  THEN [exc |-> "none", all_data |-> <<>>]
  ELSE [exc |-> "OSError", all_data |-> loaded.all_data]

\* one try statement, lines 158-169 and 172-183: [exc, all_data]
load_file(loaded, f) ==
  IF loaded.exc # "none" THEN loaded
  ELSE IF f.st = "ok"
  THEN [exc |-> "none",
        all_data |-> IF f.islist THEN loaded.all_data \o f.items
                     ELSE Append(loaded.all_data, f.items[1])]
  ELSE IF f.st \in {"missing", "malformed"} THEN loaded
  ELSE [exc |-> "OSError", all_data |-> loaded.all_data]

\* lines 155-183
load_files(f1, f2) ==
  load_file(load_file([exc |-> "none", all_data |-> <<>>], f1), f2)

\* line 186, or the exception that ended the call before it
unify_loaded(loaded, hostOffset) ==
  IF loaded.exc # "none"
  THEN [exc |-> loaded.exc, out |-> <<>>, logged |-> 0, kept |-> <<>>,
        order |-> <<>>]
  ELSE unify_data(loaded.all_data, hostOffset)

load_and_unify_from_files(f1, f2, hostOffset) ==
  unify_loaded(load_files(f1, f2), hostOffset)

\* the entries of a file
FileEntries == {Record(IntV(0)), Record(StrV(IsoInvalid)), AliasRecord, <<>>}

Files ==
  {[st |-> s, islist |-> FALSE, items |-> <<>>] :
     s \in {"missing", "malformed", "unreadable"}}
    \cup {[st |-> "ok", islist |-> TRUE, items |-> l] :
            l \in SeqUpTo(FileEntries, MaxFileLen)}
    \cup {[st |-> "ok", islist |-> FALSE, items |-> <<e>>] : e \in FileEntries}

InitLoad ==
  /\ file1 \in Files
  /\ file2 \in Files
  /\ all_data = <<>>
  /\ tz \in HostOffsets
  /\ data_list = <<>>
  /\ pc = "call"
  /\ NothingReturned
  /\ NoArgument

LoadAndUnify ==
  /\ pc = "call"
  /\ all_data' = load_files(file1, file2).all_data
  /\ Returned(all_data', load_and_unify_from_files(file1, file2, tz))
  /\ UNCHANGED <<tz, round, prev, arg, ret, file1, file2>>

NextLoad == LoadAndUnify

SpecLoad == InitLoad /\ [][NextLoad]_vars

\* the source is missing or is no JSON
SourceFailed(f) == f.st \in {"missing", "malformed"}

\* the records the output is made of: those of list that normalize
Normalized(list) ==
  {i \in DOMAIN list : normalize_entry(list[i], tz).exc = "none"}

\* C10: a source that is missing or no JSON contributes no record and does
\* not end the run: the other source's records are all passed to unify_data,
\* and those it normalizes are the output; with both sources failed the
\* result is the empty list.
C10_FailedSourceSkipped ==
  Done =>
    /\ (SourceFailed(file1) /\ file2.st = "ok") => all_data = file2.items
    /\ (SourceFailed(file2) /\ file1.st = "ok") => all_data = file1.items
    /\ (SourceFailed(file1) /\ SourceFailed(file2)) =>
         (all_data = <<>> /\ exc = "none" /\ result = <<>>)
    /\ (SourceFailed(file1) \/ SourceFailed(file2)) =>
         /\ data_list = all_data
         /\ exc \in {"none", "TypeError", "OSError"}
         /\ exc = "OSError" =>
              "unreadable" \in {file1.st, file2.st}
         /\ exc = "none" =>
              /\ {InputPos(j) : j \in DOMAIN result} = Normalized(all_data)
              /\ Len(result) = Cardinality(Normalized(all_data))
              /\ \A j \in DOMAIN result :
                   Ok(result[j]) = normalize_entry(all_data[InputPos(j)], tz)

\* the second source is missing and the records of the first are the output
C10_Witness ==
  /\ Returns
  /\ file2.st = "missing"
  /\ file1.st = "ok"
  /\ Len(file1.items) = 2
  /\ Len(result) = 2

====
